---- MODULE Spec2Model ----
(***************************************************************************)
(* Model of restic's FUSE directory node (src/restic/fuse/dir.go): the two *)
(* constructors newDir / newDirFromSnapshot, the flattening of "." and "/" *)
(* nodes, and the read-only handlers Attr, ReadDirAll, Lookup, Listxattr   *)
(* and Getxattr.  The repository is content-addressed and immutable; the   *)
(* state is the repository, the dir objects handed out so far, and the     *)
(* response and LoadTree calls of the last request.                        *)
(***************************************************************************)
EXTENDS Integers, Sequences, FiniteSets, TLC

VARIABLES repo,    \* tree id -> listing (sequence of *restic.Node)
          heap,    \* the *dir objects constructed so far
          origin,  \* origin[i]: how heap[i] was built (snapshot, or parent and name)
          res,     \* the response of the last request
          loads    \* the LoadTree calls the last request made, in order

vars == <<repo, heap, origin, res, loads>>

----------------------------------------------------------------------------
(* Bounds *)
MaxNodes  == 1      \* longest enumerated tree listing
MaxXattrs == 1      \* longest enumerated extended-attribute list
MaxObjs   == 3      \* dir objects alive at once

----------------------------------------------------------------------------
(* Data *)
NoRef      == 0     \* a nil *restic.ID
RootRef    == 1
SubRef     == 2
LeafRef    == 3
MissingRef == 4     \* a tree id the repository does not hold

\* os.FileMode: the os.ModeDir bit and the permission bits
FileMode(isDir, perm) == [isDir |-> isDir, perm |-> perm]
ProcUID  == 1000    \* os.Getuid()
ProcGID  == 100     \* os.Getgid()

Names  == {".", "/", "a"}
Errors == {"NotFound", "IOError"}

\* []byte: the nil slice and the empty non-nil slice are different Go values
NilBytes    == [isNil |-> TRUE,  bytes |-> <<>>]
Bytes(b)    == [isNil |-> FALSE, bytes |-> b]
XValues     == {NilBytes, Bytes(<<>>), Bytes(<<1>>)}
XNames      == {"k", "K"}
XattrLists  == UNION {[1..n -> [Name : XNames, Value : XValues]] : n \in 0..MaxXattrs}
DefaultXattrs == <<[Name |-> "k", Value |-> Bytes(<<1>>)]>>

\* restic.Node
Node(name, type, subtree, inode, mode, xattrs) ==
    [Name |-> name, Type |-> type, Subtree |-> subtree, Inode |-> inode,
     Mode |-> mode, UID |-> 500, GID |-> 50,
     AccessTime |-> 1, ModTime |-> 2, ChangeTime |-> 3,
     ExtendedAttributes |-> xattrs]

DirNode(name, subtree, inode, xattrs) ==
    Node(name, "dir", subtree, inode, FileMode(name = ".", 493), xattrs)
LeafNode(name, type, inode) == Node(name, type, NoRef, inode, FileMode(FALSE, 420), <<>>)

\* the nodes a listing of tree r is drawn from; its directories point at tree c
Universe(r, c) ==
    {DirNode(n, c, 10 * r + 1, DefaultXattrs) : n \in Names}
      \cup {DirNode(".", NoRef, 10 * r + 2, <<>>)}
      \cup {LeafNode(n, "file", 10 * r + 3) : n \in {".", "a"}}
      \cup {LeafNode("a", "fifo", 10 * r + 4), LeafNode("a", "symlink", 10 * r + 5)}

Listings(U) == UNION {[1..n -> U] : n \in 0..MaxNodes}

LeafTree == <<LeafNode("a", "file", 33), DirNode(".", MissingRef, 31, <<>>)>>

\* the listings of the tree that wraps the enumerated one
FewRoots ==
    { <<DirNode(".", SubRef, 11, DefaultXattrs)>>,
      <<LeafNode("a", "file", 13), DirNode("/", SubRef, 11, DefaultXattrs),
        DirNode("a", SubRef, 12, DefaultXattrs)>> }

Repos ==
    {[r \in {RootRef, SubRef, LeafRef} |->
        IF r = RootRef THEN root ELSE IF r = SubRef THEN sub ELSE LeafTree]
       : root \in FewRoots, sub \in Listings(Universe(SubRef, LeafRef))}
    \cup
    {[r \in {RootRef, SubRef, LeafRef} |->
        IF r = RootRef THEN <<DirNode("a", SubRef, 12, x)>>
        ELSE IF r = SubRef THEN <<LeafNode("a", "file", 23)>> ELSE LeafTree]
       : x \in XattrLists}

\* SnapshotWithId
Snapshots == {[ID |-> 1, Tree |-> RootRef, Time |-> 7],
              [ID |-> 2, Tree |-> SubRef,  Time |-> 8]}

----------------------------------------------------------------------------
(* Collaborators outside dir.go *)

\* repo.LoadTree: the k-th call of a request fails with e when k = failAt,
\* a tree the repository does not hold is NotFound
LoadTree(ref, k, failAt, e) ==
    IF k = failAt THEN [err |-> e, Nodes |-> <<>>]
    ELSE IF ref \notin DOMAIN repo THEN [err |-> "NotFound", Nodes |-> <<>>]
    ELSE [err |-> "nil", Nodes |-> repo[ref]]

inodeFromBackendID(id) == 1000 + id

\* Node.GetExtendedAttribute: the value of the first entry named a, else nil
RECURSIVE GetExtendedAttribute(_, _)
GetExtendedAttribute(xattrs, a) ==
    IF xattrs = <<>> THEN NilBytes
    ELSE IF Head(xattrs).Name = a THEN Head(xattrs).Value
    ELSE GetExtendedAttribute(Tail(xattrs), a)

newFile(node, ownerIsRoot) == [kind |-> "file", node |-> node, ownerIsRoot |-> ownerIsRoot]
newLink(node, ownerIsRoot) == [kind |-> "link", node |-> node, ownerIsRoot |-> ownerIsRoot]

----------------------------------------------------------------------------
(* dir.go *)

EmptyItems == [n \in {} |-> NilBytes]

\* items[node.Name] = node
Put(items, node) ==
    [n \in DOMAIN items \cup {node.Name} |-> IF n = node.Name THEN node ELSE items[n]]

\* for _, node := range nodes { items[node.Name] = node }
RECURSIVE indexNodes(_, _)
indexNodes(items, nodes) ==
    IF nodes = <<>> THEN items
    ELSE indexNodes(Put(items, Head(nodes)), Tail(nodes))

Call(ref, tree) == [ref |-> ref, err |-> tree.err]

\* replaceSpecialNodes with "." left out of the name test
replaceSpecialNodesSlashOnly(node, k, failAt, e) ==
    IF node.Type # "dir" \/ node.Subtree = NoRef
    THEN [err |-> "nil", nodes |-> <<node>>, loads |-> <<>>]
    ELSE IF node.Name # "/"
    THEN [err |-> "nil", nodes |-> <<node>>, loads |-> <<>>]
    ELSE LET tree == LoadTree(node.Subtree, k + 1, failAt, e) IN
         IF tree.err # "nil"
         THEN [err |-> tree.err, nodes |-> <<>>, loads |-> <<Call(node.Subtree, tree)>>]
         ELSE [err |-> "nil", nodes |-> tree.Nodes, loads |-> <<Call(node.Subtree, tree)>>]

\* replaceSpecialNodes without the name test
replaceSpecialNodesAnyDir(node, k, failAt, e) ==
    IF node.Type # "dir" \/ node.Subtree = NoRef
    THEN [err |-> "nil", nodes |-> <<node>>, loads |-> <<>>]
    ELSE LET tree == LoadTree(node.Subtree, k + 1, failAt, e) IN
         IF tree.err # "nil"
         THEN [err |-> tree.err, nodes |-> <<>>, loads |-> <<Call(node.Subtree, tree)>>]
         ELSE [err |-> "nil", nodes |-> tree.Nodes, loads |-> <<Call(node.Subtree, tree)>>]

\* k: the number of LoadTree calls the request has made before this one
replaceSpecialNodes(node, k, failAt, e) ==
    IF node.Type # "dir" \/ node.Subtree = NoRef
    THEN [err |-> "nil", nodes |-> <<node>>, loads |-> <<>>]
    ELSE IF node.Name # "." /\ node.Name # "/"
    THEN [err |-> "nil", nodes |-> <<node>>, loads |-> <<>>]
    ELSE LET tree == LoadTree(node.Subtree, k + 1, failAt, e) IN
         IF tree.err # "nil"
         THEN [err |-> tree.err, nodes |-> <<>>, loads |-> <<Call(node.Subtree, tree)>>]
         ELSE [err |-> "nil", nodes |-> tree.Nodes, loads |-> <<Call(node.Subtree, tree)>>]

\* the loop of newDirFromSnapshot skipping a node whose subtree fails to load
RECURSIVE snapshotItemsSkipFailed(_, _, _, _, _)
snapshotItemsSkipFailed(items, nodes, log, failAt, e) ==
    IF nodes = <<>> THEN [err |-> "nil", items |-> items, loads |-> log]
    ELSE LET r == replaceSpecialNodes(Head(nodes), Len(log), failAt, e) IN
         snapshotItemsSkipFailed(indexNodes(items, r.nodes), Tail(nodes),
                                 log \o r.loads, failAt, e)

\* the loop of newDirFromSnapshot over tree.Nodes
RECURSIVE snapshotItems(_, _, _, _, _)
snapshotItems(items, nodes, log, failAt, e) ==
    IF nodes = <<>> THEN [err |-> "nil", items |-> items, loads |-> log]
    ELSE LET r == replaceSpecialNodes(Head(nodes), Len(log), failAt, e) IN
         IF r.err # "nil"
         THEN [err |-> r.err, items |-> EmptyItems, loads |-> log \o r.loads]
         ELSE snapshotItems(indexNodes(items, r.nodes), Tail(nodes),
                            log \o r.loads, failAt, e)

\* newDir flattening "." and "/" as newDirFromSnapshot does
newDirFlattening(node, ownerIsRoot, failAt, e) ==
    IF node.Subtree = NoRef
    THEN [panic |-> TRUE, err |-> "nil", d |-> <<>>, loads |-> <<>>]
    ELSE LET tree == LoadTree(node.Subtree, 1, failAt, e) IN
         IF tree.err # "nil"
         THEN [panic |-> FALSE, err |-> tree.err, d |-> <<>>,
               loads |-> <<Call(node.Subtree, tree)>>]
         ELSE [panic |-> FALSE, err |-> "nil",
               d |-> <<[node |-> node,
                        items |-> snapshotItems(EmptyItems, tree.Nodes, <<>>, 0, "nil").items,
                        inode |-> node.Inode,
                        ownerIsRoot |-> ownerIsRoot]>>,
               loads |-> <<Call(node.Subtree, tree)>>]

\* newDir numbering each object it builds instead of taking node.Inode
newDirFreshInode(node, ownerIsRoot, failAt, e) ==
    IF node.Subtree = NoRef
    THEN [panic |-> TRUE, err |-> "nil", d |-> <<>>, loads |-> <<>>]
    ELSE LET tree == LoadTree(node.Subtree, 1, failAt, e) IN
         IF tree.err # "nil"
         THEN [panic |-> FALSE, err |-> tree.err, d |-> <<>>,
               loads |-> <<Call(node.Subtree, tree)>>]
         ELSE [panic |-> FALSE, err |-> "nil",
               d |-> <<[node |-> node,
                        items |-> indexNodes(EmptyItems, tree.Nodes),
                        inode |-> Len(heap) + 1,
                        ownerIsRoot |-> ownerIsRoot]>>,
               loads |-> <<Call(node.Subtree, tree)>>]

newDir(node, ownerIsRoot, failAt, e) ==
    IF node.Subtree = NoRef
    THEN [panic |-> TRUE, err |-> "nil", d |-> <<>>, loads |-> <<>>]
    ELSE LET tree == LoadTree(node.Subtree, 1, failAt, e) IN
         IF tree.err # "nil"
         THEN [panic |-> FALSE, err |-> tree.err, d |-> <<>>,
               loads |-> <<Call(node.Subtree, tree)>>]
         ELSE [panic |-> FALSE, err |-> "nil",
               d |-> <<[node |-> node,
                        items |-> indexNodes(EmptyItems, tree.Nodes),
                        inode |-> node.Inode,
                        ownerIsRoot |-> ownerIsRoot]>>,
               loads |-> <<Call(node.Subtree, tree)>>]

newDirFromSnapshot(snapshot, ownerIsRoot, failAt, e) ==
    LET tree == LoadTree(snapshot.Tree, 1, failAt, e) IN
    IF tree.err # "nil"
    THEN [panic |-> FALSE, err |-> tree.err, d |-> <<>>,
          loads |-> <<Call(snapshot.Tree, tree)>>]
    ELSE LET r == snapshotItems(EmptyItems, tree.Nodes,
                                <<Call(snapshot.Tree, tree)>>, failAt, e) IN
         IF r.err # "nil"
         THEN [panic |-> FALSE, err |-> r.err, d |-> <<>>, loads |-> r.loads]
         ELSE [panic |-> FALSE, err |-> "nil",
               d |-> <<[node |-> [Name |-> "", Type |-> "", Subtree |-> NoRef,
                                  Inode |-> 0, Mode |-> FileMode(TRUE, 365),
                                  UID |-> ProcUID, GID |-> ProcGID,
                                  AccessTime |-> snapshot.Time,
                                  ModTime |-> snapshot.Time,
                                  ChangeTime |-> snapshot.Time,
                                  ExtendedAttributes |-> <<>>],
                        items |-> r.items,
                        inode |-> inodeFromBackendID(snapshot.ID),
                        ownerIsRoot |-> ownerIsRoot]>>,
               loads |-> r.loads]

\* os.ModeDir | m
OrModeDir(m) == [m EXCEPT !.isDir = TRUE]

RECURSIVE countLinks(_, _, _)
countLinks(items, keys, count) ==
    IF keys = {} THEN count
    ELSE LET n == CHOOSE x \in keys : TRUE IN
         countLinks(items, keys \ {n},
                    IF items[n].Type = "dir" THEN count + 1 ELSE count)

\* calcNumberOfLinks counting every child
calcNumberOfLinksAllItems(d) == 2 + Cardinality(DOMAIN d.items)

calcNumberOfLinks(d) == countLinks(d.items, DOMAIN d.items, 2)

\* a: the fuse.Attr the caller hands in
ZeroAttr == [Inode |-> 0, Mode |-> FileMode(FALSE, 0), Uid |-> 0, Gid |-> 0,
             Atime |-> 0, Ctime |-> 0, Mtime |-> 0, Nlink |-> 0]

Attr(d, a) ==
    [Inode |-> d.inode,
     Mode  |-> OrModeDir(d.node.Mode),
     Uid   |-> IF ~d.ownerIsRoot THEN d.node.UID ELSE a.Uid,
     Gid   |-> IF ~d.ownerIsRoot THEN d.node.GID ELSE a.Gid,
     Atime |-> d.node.AccessTime,
     Ctime |-> d.node.ChangeTime,
     Mtime |-> d.node.ModTime,
     Nlink |-> calcNumberOfLinks(d)]

DirentType(type) ==
    CASE type = "dir"     -> "DT_Dir"
      [] type = "file"    -> "DT_File"
      [] type = "symlink" -> "DT_Link"
      [] OTHER            -> "DT_Unknown"

\* order: the order in which the map iteration visits the keys
ReadDirAll(d, order) ==
    [i \in 1..Len(order) |->
        [Inode |-> d.items[order[i]].Inode,
         Type  |-> DirentType(d.items[order[i]].Type),
         Name  |-> d.items[order[i]].Name]]

Orders(S) ==
    {s \in [1..Cardinality(S) -> S] : \A x \in S : \E i \in DOMAIN s : s[i] = x}

\* Lookup handing a child of unknown type to newFile
LookupUnknownAsFile(d, name, failAt, e) ==
    IF name \notin DOMAIN d.items
    THEN [panic |-> FALSE, err |-> "ENOENT", d |-> <<>>, loads |-> <<>>, leaf |-> <<>>]
    ELSE LET node == d.items[name] IN
         CASE node.Type = "dir" ->
                [leaf |-> <<>>] @@ newDir(node, d.ownerIsRoot, failAt, e)
           [] node.Type = "symlink" ->
                [panic |-> FALSE, err |-> "nil", d |-> <<>>, loads |-> <<>>,
                 leaf |-> <<newLink(node, d.ownerIsRoot)>>]
           [] OTHER ->
                [panic |-> FALSE, err |-> "nil", d |-> <<>>, loads |-> <<>>,
                 leaf |-> <<newFile(node, d.ownerIsRoot)>>]

\* child: the node returned (a dir, a file or a link), or none
Lookup(d, name, failAt, e) ==
    IF name \notin DOMAIN d.items
    THEN [panic |-> FALSE, err |-> "ENOENT", d |-> <<>>, loads |-> <<>>, leaf |-> <<>>]
    ELSE LET node == d.items[name] IN
         CASE node.Type = "dir" ->
                [leaf |-> <<>>] @@ newDir(node, d.ownerIsRoot, failAt, e)
           [] node.Type = "file" ->
                [panic |-> FALSE, err |-> "nil", d |-> <<>>, loads |-> <<>>,
                 leaf |-> <<newFile(node, d.ownerIsRoot)>>]
           [] node.Type = "symlink" ->
                [panic |-> FALSE, err |-> "nil", d |-> <<>>, loads |-> <<>>,
                 leaf |-> <<newLink(node, d.ownerIsRoot)>>]
           [] OTHER ->
                [panic |-> FALSE, err |-> "ENOENT", d |-> <<>>, loads |-> <<>>,
                 leaf |-> <<>>]

Listxattr(d) ==
    [i \in 1..Len(d.node.ExtendedAttributes) |-> d.node.ExtendedAttributes[i].Name]

Getxattr(d, name) ==
    LET attrval == GetExtendedAttribute(d.node.ExtendedAttributes, name) IN
    IF ~attrval.isNil
    THEN [err |-> "nil", Xattr |-> <<attrval>>]
    ELSE [err |-> "ErrNoXattr", Xattr |-> <<>>]

----------------------------------------------------------------------------
(* The requests of the protocol layer *)

\* kind: what a constructor or Lookup handed back ("dir": val is its heap index)
NoRes == [op |-> "none", obj |-> 0, name |-> "", err |-> "nil", panic |-> FALSE,
          kind |-> "none", val |-> <<>>]

Init ==
    /\ repo \in Repos
    /\ heap = <<>>
    /\ origin = <<>>
    /\ res = NoRes
    /\ loads = <<>>

\* which LoadTree call of a request fails, and how: <<0, "nil">> is no failure
Failures(n) == {<<0, "nil">>} \cup ((1..n) \X Errors)

\* the protocol layer opens the root of one snapshot, then resolves below it
OpenSnapshot ==
    \E snapshot \in Snapshots, ownerIsRoot \in BOOLEAN, f \in Failures(MaxNodes + 1) :
      LET r == newDirFromSnapshot(snapshot, ownerIsRoot, f[1], f[2]) IN
      /\ heap = <<>>
      /\ heap' = heap \o r.d
      /\ origin' = IF r.d = <<>> THEN origin
                   ELSE Append(origin, [parent |-> 0, name |-> "", snapshot |-> snapshot.ID])
      /\ res' = [op |-> "newDirFromSnapshot", obj |-> snapshot.ID, name |-> "",
                 err |-> r.err, panic |-> r.panic,
                 kind |-> IF r.d = <<>> THEN "none" ELSE "dir",
                 val |-> IF r.d = <<>> THEN <<>> ELSE <<Len(heap) + 1>>]
      /\ loads' = r.loads
      /\ UNCHANGED repo

AttrCall ==
    \E i \in 1..Len(heap) :
      /\ res' = [op |-> "Attr", obj |-> i, name |-> "", err |-> "nil", panic |-> FALSE,
                 kind |-> "none", val |-> <<Attr(heap[i], ZeroAttr)>>]
      /\ loads' = <<>>
      /\ UNCHANGED <<repo, heap, origin>>

ReadDirAllCall ==
    \E i \in 1..Len(heap) : \E order \in Orders(DOMAIN heap[i].items) :
      /\ res' = [op |-> "ReadDirAll", obj |-> i, name |-> "", err |-> "nil",
                 panic |-> FALSE, kind |-> "none", val |-> ReadDirAll(heap[i], order)]
      /\ loads' = <<>>
      /\ UNCHANGED <<repo, heap, origin>>

\* Lookup keeping the child's inode in the parent
LookupCallMutating ==
    \E i \in 1..Len(heap), name \in Names, f \in Failures(1) :
      LET r == Lookup(heap[i], name, f[1], f[2]) IN
      /\ Len(heap) < MaxObjs
      /\ heap' = IF r.d = <<>> THEN heap
                 ELSE [heap EXCEPT ![i].inode = r.d[1].inode] \o r.d
      /\ origin' = IF r.d = <<>> THEN origin
                   ELSE Append(origin, [parent |-> i, name |-> name, snapshot |-> 0])
      /\ res' = [op |-> "Lookup", obj |-> i, name |-> name, err |-> r.err,
                 panic |-> r.panic,
                 kind |-> IF r.d # <<>> THEN "dir"
                          ELSE IF r.leaf # <<>> THEN r.leaf[1].kind ELSE "none",
                 val |-> IF r.d # <<>> THEN <<Len(heap) + 1>> ELSE r.leaf]
      /\ loads' = r.loads
      /\ UNCHANGED repo

LookupCall ==
    \E i \in 1..Len(heap), name \in Names, f \in Failures(1) :
      LET r == Lookup(heap[i], name, f[1], f[2]) IN
      /\ Len(heap) < MaxObjs
      /\ heap' = heap \o r.d
      /\ origin' = IF r.d = <<>> THEN origin
                   ELSE Append(origin, [parent |-> i, name |-> name, snapshot |-> 0])
      /\ res' = [op |-> "Lookup", obj |-> i, name |-> name, err |-> r.err,
                 panic |-> r.panic,
                 kind |-> IF r.d # <<>> THEN "dir"
                          ELSE IF r.leaf # <<>> THEN r.leaf[1].kind ELSE "none",
                 val |-> IF r.d # <<>> THEN <<Len(heap) + 1>> ELSE r.leaf]
      /\ loads' = r.loads
      /\ UNCHANGED repo

ListxattrCall ==
    \E i \in 1..Len(heap) :
      /\ res' = [op |-> "Listxattr", obj |-> i, name |-> "", err |-> "nil",
                 panic |-> FALSE, kind |-> "none", val |-> Listxattr(heap[i])]
      /\ loads' = <<>>
      /\ UNCHANGED <<repo, heap, origin>>

GetxattrCall ==
    \E i \in 1..Len(heap), name \in XNames :
      LET r == Getxattr(heap[i], name) IN
      /\ res' = [op |-> "Getxattr", obj |-> i, name |-> name, err |-> r.err,
                 panic |-> FALSE, kind |-> "none", val |-> r.Xattr]
      /\ loads' = <<>>
      /\ UNCHANGED <<repo, heap, origin>>

Next ==
    \/ OpenSnapshot
    \/ AttrCall
    \/ ReadDirAllCall
    \/ LookupCall
    \/ ListxattrCall
    \/ GetxattrCall

Spec == Init /\ [][Next]_vars

----------------------------------------------------------------------------
(* Properties *)

Objs == 1..Len(heap)
FromSubtree(i)  == origin[i].parent # 0
FromSnapshot(i) == origin[i].parent = 0

\* the listing of the tree the snapshot of root i points at
TopLevel(i) ==
    repo[(CHOOSE sn \in Snapshots : sn.ID = origin[i].snapshot).Tree]

NamesOf(list) == {list[j].Name : j \in 1..Len(list)}

\* the map a listing is indexed into when a later entry replaces an earlier
\* one of the same name
LastWins(list) ==
    [n \in NamesOf(list) |->
        list[CHOOSE j \in 1..Len(list) :
                /\ list[j].Name = n
                /\ \A k \in (j + 1)..Len(list) : list[k].Name # n]]

RECURSIVE Concat(_)
Concat(lists) == IF lists = <<>> THEN <<>> ELSE Head(lists) \o Concat(Tail(lists))

IsDotDir(n) == n.Type = "dir" /\ n.Name \in {".", "/"}

\* C1: a directory built by newDir from a subtree reference has exactly the
\* names of the listing LoadTree returned as its children, each bound to the
\* listing's (last) descriptor of that name; "." and "/" directories of the
\* listing stay literal children.
C1_NewDirChildren ==
    \A i \in Objs : FromSubtree(i) =>
        LET listing == repo[heap[i].node.Subtree] IN
        /\ DOMAIN heap[i].items = NamesOf(listing)
        /\ heap[i].items = LastWins(listing)

C1_Witness ==
    \E i \in Objs :
        /\ FromSubtree(i)
        /\ "." \in DOMAIN heap[i].items
        /\ IsDotDir(heap[i].items["."])
        /\ heap[i].items["."].Subtree # NoRef

\* C2: a root built from a snapshot whose top-level listing is a single "."
\* directory pointing at subtree S has the children of a directory built by
\* newDir from S, and the wrapper itself is not among them.
C2_DotWrapperTransparent ==
    \A i \in Objs :
        (/\ FromSnapshot(i)
         /\ Len(TopLevel(i)) = 1
         /\ TopLevel(i)[1].Type = "dir"
         /\ TopLevel(i)[1].Name = "."
         /\ TopLevel(i)[1].Subtree # NoRef)
        => LET w == TopLevel(i)[1]
               direct == newDir(w, heap[i].ownerIsRoot, 0, "nil")
           IN /\ direct.d # <<>>
              /\ heap[i].items = direct.d[1].items
              /\ \A n \in DOMAIN heap[i].items : heap[i].items[n] # w

C2_Witness ==
    \E i \in Objs :
        /\ FromSnapshot(i)
        /\ Len(TopLevel(i)) = 1
        /\ IsDotDir(TopLevel(i)[1])
        /\ TopLevel(i)[1].Name = "."
        /\ TopLevel(i)[1].Subtree # NoRef
        /\ heap[i].items # EmptyItems

\* C3: Attr reports a link count of 2 plus the number of children of kind
\* dir, for directories built from a subtree and from a snapshot alike.
C3_LinkCount ==
    res.op = "Attr" =>
        res.val[1].Nlink =
            2 + Cardinality({n \in DOMAIN heap[res.obj].items :
                                heap[res.obj].items[n].Type = "dir"})

\* a snapshot root after flattening, with a duplicate name resolved
C3_Witness ==
    /\ res.op = "Attr"
    /\ FromSnapshot(res.obj)
    /\ Len(TopLevel(res.obj)) = 3
    /\ res.val[1].Nlink = 4

\* C4: Lookup of a name that is no key of children, or whose child has a
\* kind other than dir, file and symlink, answers ENOENT with no child, reads
\* no tree and does not panic.
C4_LookupNotFound ==
    (/\ res.op = "Lookup"
     /\ \/ res.name \notin DOMAIN heap[res.obj].items
        \/ heap[res.obj].items[res.name].Type \notin {"dir", "file", "symlink"})
    => /\ res.err = "ENOENT"
       /\ res.kind = "none"
       /\ res.val = <<>>
       /\ loads = <<>>
       /\ ~res.panic

C4_Witness ==
    /\ res.op = "Lookup"
    /\ res.name \in DOMAIN heap[res.obj].items
    /\ heap[res.obj].items[res.name].Type = "fifo"
    /\ res.err = "ENOENT"

\* C5: Getxattr returns the bytes of the entry of the directory's own
\* descriptor whose name equals the requested name, whatever the value (an
\* empty one included), and ErrNoXattr when no entry has that name.
C5_GetxattrExact ==
    res.op = "Getxattr" =>
        LET xs == heap[res.obj].node.ExtendedAttributes
            m  == {j \in 1..Len(xs) : xs[j].Name = res.name}
        IN IF m # {}
           THEN /\ res.err = "nil"
                /\ Len(res.val) = 1
                /\ \E j \in m : res.val[1].bytes = xs[j].Value.bytes
           ELSE res.err = "ErrNoXattr" /\ res.val = <<>>

\* C6: every Lookup that yields a directory reloads the child's subtree, and
\* two directories obtained by Lookup of the same name on the same parent are
\* distinct objects with the same Attr output.
C6_RepeatedLookup ==
    /\ (res.op = "Lookup" /\ res.kind = "dir") =>
          loads = <<[ref |-> heap[res.obj].items[res.name].Subtree, err |-> "nil"]>>
    /\ \A i, j \in Objs :
          (i # j /\ FromSubtree(i) /\ origin[i] = origin[j])
          => Attr(heap[i], ZeroAttr) = Attr(heap[j], ZeroAttr)

C6_Witness ==
    /\ res.op = "Lookup"
    /\ res.kind = "dir"
    /\ \E i \in Objs : i # res.val[1] /\ origin[i] = origin[res.val[1]]

\* C7: when a LoadTree call of a construction fails, the construction stops
\* at that call, hands back no directory, and returns that call's error.
C7_AllOrNothing ==
    [][(\E k \in 1..Len(loads') : loads'[k].err # "nil")
       => /\ heap' = heap
          /\ res'.kind = "none"
          /\ res'.val = <<>>
          /\ res'.err = loads'[Len(loads')].err
          /\ \A k \in 1..(Len(loads') - 1) : loads'[k].err = "nil"]_vars

\* the load of a flattened subtree fails after an earlier top-level entry was indexed
C7_Witness ==
    /\ res.op = "newDirFromSnapshot"
    /\ Len(loads) = 2
    /\ loads[2].err = "IOError"
    /\ res.err = "IOError"
    /\ ~IsDotDir(repo[loads[1].ref][1])

\* C8: every entry ReadDirAll returns has type DT_Dir, DT_File or DT_Link.
C8_ListedTypes ==
    res.op = "ReadDirAll" =>
        \A k \in 1..Len(res.val) : res.val[k].Type \in {"DT_Dir", "DT_File", "DT_Link"}

\* C9 as stated: a top-level descriptor of a snapshot root is replaced by the
\* descriptors of its subtree exactly when it is a directory named "." or "/".
C9_FlattenByNameAndKind ==
    \A i \in Objs : FromSnapshot(i) =>
        heap[i].items =
            LastWins(Concat([j \in 1..Len(TopLevel(i)) |->
                IF IsDotDir(TopLevel(i)[j])
                THEN IF TopLevel(i)[j].Subtree \in DOMAIN repo
                     THEN repo[TopLevel(i)[j].Subtree] ELSE <<>>
                ELSE <<TopLevel(i)[j]>>]))

\* C9 amended: a top-level descriptor is replaced by the descriptors of its
\* subtree exactly when it is a directory named "." or "/" that carries a
\* subtree reference; every other descriptor is indexed as it is, and the
\* descriptors of a substituted subtree are indexed as they are.
C9_FlattenOneLevel ==
    \A i \in Objs : FromSnapshot(i) =>
        heap[i].items =
            LastWins(Concat([j \in 1..Len(TopLevel(i)) |->
                IF IsDotDir(TopLevel(i)[j]) /\ TopLevel(i)[j].Subtree # NoRef
                THEN repo[TopLevel(i)[j].Subtree]
                ELSE <<TopLevel(i)[j]>>]))

\* a "." directory of a substituted subtree is a literal child of the root
C9_Witness ==
    \E i \in Objs :
        /\ FromSnapshot(i)
        /\ \E j \in 1..Len(TopLevel(i)) :
              IsDotDir(TopLevel(i)[j]) /\ TopLevel(i)[j].Subtree = LeafRef
        /\ "." \in DOMAIN heap[i].items
        /\ heap[i].items["."] \in {LeafTree[j] : j \in 1..Len(LeafTree)}

\* C10: no request changes a directory that has been constructed.
C10_Immutable ==
    [][\A i \in Objs : i <= Len(heap') /\ heap'[i] = heap[i]]_vars

C10_Witness ==
    /\ Len(heap) = MaxObjs
    /\ res.op = "Lookup"
    /\ res.kind = "dir"

====
